---------------------------- MODULE Spec2Model ----------------------------
(***************************************************************************)
(* SysView: a terminal dashboard.  SystemStats (system.py) keeps the       *)
(* rolling histories, the network rate state and the peaks; SysView        *)
(* (__main__.py) owns the interaction state, the cached snapshot and the   *)
(* render loop; Drawer (draw.py) turns a snapshot into panels.             *)
(*                                                                         *)
(* Conventions of the model:                                               *)
(*  - a Python str is a sequence of one-character strings;                 *)
(*  - a Python float produced by a true division is an exact rational      *)
(*    [num, den] in lowest terms with den > 0;                             *)
(*  - a slot that may hold None holds None or Some(x);                     *)
(*  - time.time() is a wall clock: the model reads it as prev_time + dt    *)
(*    for a dt drawn from a set that may hold 0 and negative steps.        *)
(***************************************************************************)
EXTENDS Integers, Sequences, FiniteSets, TLC

VARIABLES
    \* ---- SystemStats (system.py:11-24)
    cpu_history, memory_history, net_history,
    prev_net_io, prev_time, peak_send_speed, peak_recv_speed,
    process_cpu_history,
    \* ---- SysView (__main__.py:21-47)
    running, paused, current_layout, overlay, process_sort_key, process_sort_reverse,
    process_filter, filter_buffer, process_scroll, cached_stats,
    \* ---- Config (config.py:61-89): len(config.get("presets", [])), fixed at startup
    preset_count,
    \* ---- the console (msvcrt): the keys typed and not yet read by getch()
    kbd,
    \* ---- main() (__main__.py:310-329): position in the loop, last frame given to Live
    pc, frame,
    \* ---- history variables (not program state)
    hist_log,   \* every value appended to each buffer and every counter reading
    ftrace,     \* the filter dialogue in progress: keys typed since `f` was pressed in Normal
    call,       \* the last operation invoked and its arguments
    ret         \* what a directly invoked function returned: None before the return

engineVars == <<cpu_history, memory_history, net_history, prev_net_io, prev_time,
                peak_send_speed, peak_recv_speed, process_cpu_history>>
uiVars     == <<running, paused, current_layout, overlay, process_sort_key,
                process_sort_reverse, process_filter, filter_buffer, process_scroll>>
vars       == <<engineVars, uiVars, cached_stats, preset_count, kbd, pc, frame, hist_log,
                ftrace, call, ret>>

\* None, and a value that may be None: Some(x).v is x
None == [is_none |-> TRUE]
Some(x) == [is_none |-> FALSE, v |-> x]

Min(a, b) == IF a <= b THEN a ELSE b
Max(a, b) == IF a >= b THEN a ELSE b
Abs(a)    == IF a < 0 THEN -a ELSE a

RECURSIVE GCD(_, _)
GCD(a, b) == IF b = 0 THEN a ELSE GCD(b, a % b)

(***************************************************************************)
(* Python's a / b on numbers, b # 0: the exact quotient in lowest terms.   *)
(***************************************************************************)
TrueDiv(a, b) ==
    LET g == GCD(Abs(a), Abs(b))
        s == IF b < 0 THEN -1 ELSE 1
    IN  [num |-> (s * a) \div g, den |-> (s * b) \div g]

Zero == [num |-> 0, den |-> 1]
Whole(n) == [num |-> n, den |-> 1]
RatLess(x, y) == x.num * y.den < y.num * x.den
\* Python's max(a, b): b only when it is strictly greater than a
PyMax(a, b) == IF RatLess(a, b) THEN b ELSE a

(***************************************************************************)
(* Bounds and program constants                                            *)
(***************************************************************************)
HistoryMaxLen     == 100   \* deque(maxlen=100)
ProcHistoryMaxLen == 10    \* deque(maxlen=10)
PageSize          == 30    \* rows of the process table

MaxSamples     == 2     \* Spec: samples ingested
MaxBuf         == 2     \* Spec: length of filter_buffer
MaxScroll      == 11    \* Spec: process_scroll
MaxFilterSamples == 8   \* SpecFilter: samples ingested
MaxTyped       == 3     \* SpecFilter: keys typed into the filter dialogue
MaxEngSamples  == 2     \* SpecEngine: samples ingested
MaxNetSamples  == 5     \* SpecNet: samples ingested
MaxLongSamples == 102   \* SpecHist: samples ingested
MaxProcs       == 46    \* SpecScroll: length of the process list
MaxPageScroll  == 100   \* SpecScroll: process_scroll
MaxWidth       == 3     \* SpecGraph: width of the grid
MaxHeight      == 6     \* SpecGraph: height of the grid
MaxSeriesLen   == 4     \* SpecGraph: length of the series
MaxKeySamples  == 2     \* SpecKeys: samples ingested
MaxKeyBuf      == 1     \* SpecKeys: length of filter_buffer
MaxKeyScroll   == 1     \* SpecKeys: process_scroll
MaxPagingScroll == 21   \* SpecPaging: process_scroll
MaxPresets     == 3     \* SpecKeys: number of configured layout presets
MaxPending     == 3     \* SpecQueue: keys typed ahead
MaxProcSamples == 13    \* SpecProc: samples ingested
MaxPauseTicks  == 5     \* SpecPause: seconds on the machine's clock

(***************************************************************************)
(* collections.deque(maxlen=n).append(v): the oldest is dropped when full  *)
(***************************************************************************)
DequeAppend_KeepOldest(q, v, maxlen) ==
    IF Len(q) = maxlen THEN q ELSE Append(q, v)

DequeAppend(q, v, maxlen) ==
    IF Len(q) = maxlen THEN Append(Tail(q), v) ELSE Append(q, v)

(***************************************************************************)
(* SystemStats.  The operators take the object's fields as a record e and  *)
(* the provider's readings of this sample as a record s:                   *)
(*   s.cpu, s.mem      psutil.cpu_percent, virtual_memory().percent        *)
(*   s.battery         psutil.sensors_battery() as get_battery_info        *)
(*                     returns it: Some(charge), or None without a battery *)
(*   s.freq            psutil.cpu_freq(): Some(frequencies), or None when  *)
(*                     it returns None or raises                          *)
(*   s.d_sent, s.d_recv growth of the cumulative counters since last read  *)
(*   s.dt              step of time.time() since the last read             *)
(*   s.procs           the process enumeration                            *)
(***************************************************************************)
engine == [cpu_history |-> cpu_history, memory_history |-> memory_history,
           net_history |-> net_history, prev_net_io |-> prev_net_io,
           prev_time |-> prev_time, peak_send_speed |-> peak_send_speed,
           peak_recv_speed |-> peak_recv_speed,
           process_cpu_history |-> process_cpu_history]

\* SystemStats.get_cpu_stats: the new cpu_history and the returned dict
GetCpuStats(e, s) ==
    LET h == DequeAppend(e.cpu_history, s.cpu, HistoryMaxLen)
        freq_current == IF s.freq # None THEN s.freq.v.current ELSE 0
        freq_min == IF s.freq # None THEN s.freq.v.min ELSE 0
        freq_max == IF s.freq # None THEN s.freq.v.max ELSE 0
    IN  [history |-> h,
         stats |-> [total |-> s.cpu, freq_current |-> freq_current,
                    freq_min |-> freq_min, freq_max |-> freq_max, history |-> h]]

\* SystemStats.get_memory_stats.  The guard `len > 100` after the append cannot hold
\* for a deque(maxlen=100); were it to hold, deque.pop(0) raises TypeError.
GetMemoryStats(e, s) ==
    LET h == DequeAppend(e.memory_history, s.mem, HistoryMaxLen)
    IN  [history |-> h, raised |-> Len(h) > 100,
         stats |-> [percent |-> s.mem, history |-> h]]

NetSpeed_NoDivide(bytes, time_delta) == Whole(bytes)

\* lines 211-212
NetSpeed(bytes, time_delta) == TrueDiv(bytes, time_delta)

NewPeak_Last(peak, speed) == speed

\* lines 215-216
NewPeak(peak, speed) == PyMax(peak, speed)

NextPrevTime_Keep(e, current_time) == e.prev_time

\* line 225
NextPrevTime(e, current_time) == current_time

\* SystemStats.get_network_stats.  zero_div: ZeroDivisionError at line 211, nothing
\* assigned.  raised: the dead pop(0) of line 221.
GetNetworkStats(e, s) ==
    LET current_net_io == [bytes_sent |-> e.prev_net_io.bytes_sent + s.d_sent,
                           bytes_recv |-> e.prev_net_io.bytes_recv + s.d_recv]
        current_time == e.prev_time + s.dt
        time_delta == current_time - e.prev_time
        bytes_sent == current_net_io.bytes_sent - e.prev_net_io.bytes_sent
        bytes_recv == current_net_io.bytes_recv - e.prev_net_io.bytes_recv
        reading == [bytes_sent |-> current_net_io.bytes_sent,
                    bytes_recv |-> current_net_io.bytes_recv, time |-> current_time]
    IN  IF time_delta = 0
        THEN [zero_div |-> TRUE, raised |-> TRUE, reading |-> reading]
        ELSE LET send_speed == NetSpeed(bytes_sent, time_delta)
                 recv_speed == NetSpeed(bytes_recv, time_delta)
                 peak_s == NewPeak(e.peak_send_speed, send_speed)
                 peak_r == NewPeak(e.peak_recv_speed, recv_speed)
                 h == DequeAppend(e.net_history, <<send_speed, recv_speed>>, HistoryMaxLen)
             IN  [zero_div |-> FALSE, raised |-> Len(h) > 100, reading |-> reading,
                  peak_send |-> peak_s, peak_recv |-> peak_r, history |-> h,
                  prev_io |-> current_net_io, prev_t |-> NextPrevTime(e, current_time),
                  stats |-> [bytes_sent |-> current_net_io.bytes_sent,
                             bytes_recv |-> current_net_io.bytes_recv,
                             send_speed |-> send_speed, recv_speed |-> recv_speed,
                             peak_send_speed |-> peak_s, peak_recv_speed |-> peak_r,
                             history |-> h]]

PidsOf(procs) == {procs[i].pid : i \in 1..Len(procs)}

ProcOf(procs, pid) == procs[CHOOSE i \in 1..Len(procs) : procs[i].pid = pid]

AppendProcHistory_Unbounded(pch, procs) ==
    [pid \in (DOMAIN pch) \cup PidsOf(procs) |->
        IF pid \in PidsOf(procs)
        THEN Append(IF pid \in DOMAIN pch THEN pch[pid] ELSE <<>>,
                    ProcOf(procs, pid).cpu_percent)
        ELSE pch[pid]]

\* lines 249-251: for every enumerated pid, create the history on first sight and append
AppendProcHistory(pch, procs) ==
    [pid \in (DOMAIN pch) \cup PidsOf(procs) |->
        IF pid \in PidsOf(procs)
        THEN DequeAppend(IF pid \in DOMAIN pch THEN pch[pid] ELSE <<>>,
                         ProcOf(procs, pid).cpu_percent, ProcHistoryMaxLen)
        ELSE pch[pid]]

CleanDeadPids_Keep(pch, procs) == pch

\* lines 274-278: delete the history of every pid absent from this enumeration
CleanDeadPids(pch, procs) ==
    LET dead_pids == (DOMAIN pch) \ PidsOf(procs)
    IN  [pid \in (DOMAIN pch) \ dead_pids |-> pch[pid]]

\* SystemStats.get_process_stats
GetProcessStats(e, s) ==
    LET appended == AppendProcHistory(e.process_cpu_history, s.procs)
    IN  [history |-> CleanDeadPids(appended, s.procs),
         stats |-> [i \in 1..Len(s.procs) |->
                      [pid |-> s.procs[i].pid, name |-> s.procs[i].name,
                       cpu_percent |-> s.procs[i].cpu_percent,
                       memory_percent |-> s.procs[i].memory_percent,
                       memory_rss |-> IF s.procs[i].memory_info # None
                                      THEN s.procs[i].memory_info.v.rss ELSE 0,
                       memory_vms |-> IF s.procs[i].memory_info # None
                                      THEN s.procs[i].memory_info.v.vms ELSE 0,
                       cpu_history |-> appended[s.procs[i].pid]]]]

\* what the provider reports for the domains the engine passes through
Disks == <<[mountpoint |-> "C", percent |-> 50]>>
SystemInfo(current_time) == [hostname |-> "host", uptime |-> current_time]
\* psutil.sensors_battery() on a machine without a battery, and on one that has one
Battery == None
OnBattery == Some([percent |-> 80, power_plugged |-> FALSE, seconds_left |-> Some(3600)])

\* SystemStats.get_battery_info: the reading, None when there is no battery or the call raises
GetBatteryInfo(s) == s.battery

(***************************************************************************)
(* The dict built at __main__.py lines 215-223, evaluated in order: cpu,   *)
(* memory, disk, network, processes, system, battery.  An exception in one *)
(* call leaves the appends of the earlier calls in place and the cached    *)
(* snapshot not replaced; cached_stats['memory']['history'] is the deque   *)
(* memory_history itself (system.py line 86), so it shows later appends.   *)
(* Returns the new fields e, the new cached snapshot c, the new log and    *)
(* whether an exception left update().                                     *)
(***************************************************************************)
Alias(c, mem_history) ==
    IF c.memory = None THEN c ELSE [c EXCEPT !.memory.v.history = mem_history]

Ingest(e, c, log, s) ==
    LET cpu == GetCpuStats(e, s)
        mem == GetMemoryStats(e, s)
        net == GetNetworkStats(e, s)
        proc == GetProcessStats(e, s)
        e1 == [e EXCEPT !.cpu_history = cpu.history, !.memory_history = mem.history]
        log1 == [log EXCEPT !.cpu = Append(@, s.cpu), !.mem = Append(@, s.mem)]
        log2 == [log1 EXCEPT !.io = Append(@, net.reading)]
    IN  IF mem.raised
        THEN [raised |-> TRUE, e |-> e1, c |-> Alias(c, mem.history), log |-> log1]
        ELSE IF net.zero_div
        THEN [raised |-> TRUE, e |-> e1, c |-> Alias(c, mem.history), log |-> log2]
        ELSE LET e2 == [e1 EXCEPT !.peak_send_speed = net.peak_send,
                                  !.peak_recv_speed = net.peak_recv,
                                  !.net_history = net.history]
                 log3 == [log2 EXCEPT !.net = Append(@, <<net.stats.send_speed,
                                                          net.stats.recv_speed>>)]
             IN  IF net.raised
                 THEN [raised |-> TRUE, e |-> e2, c |-> Alias(c, mem.history), log |-> log3]
                 ELSE [raised |-> FALSE,
                       e |-> [e2 EXCEPT !.prev_net_io = net.prev_io,
                                        !.prev_time = net.prev_t,
                                        !.process_cpu_history = proc.history],
                       c |-> [cpu |-> Some(cpu.stats), memory |-> Some(mem.stats),
                              disk |-> Some(Disks), network |-> Some(net.stats),
                              processes |-> Some(proc.stats),
                              system |-> Some(SystemInfo(net.reading.time)),
                              battery |-> GetBatteryInfo(s)],
                       log |-> [log3 EXCEPT !.procs = Append(@, s.procs),
                                            !.battery = Append(@, s.battery)]]

(***************************************************************************)
(* Keys.  A key event is what one handle_keyboard call reads: one byte, or *)
(* the two bytes of a special key (0xE0 and a code).                       *)
(*   "UP" "DOWN" "PGUP" "PGDN": 0xE0 H / P / I / Q;  "DEL": 0xE0 S         *)
(*   "CR" "ESC" "BS": \r, \x1b, \x08;  "BAD": a byte that is not UTF-8     *)
(***************************************************************************)
NoKey == "NoKey"
SpecialKeys == {"UP", "DOWN", "PGUP", "PGDN", "DEL"}
Printable == {"q", "p", "h", "m", "s", "f", "1", "2", "3", "4", "5", "a", "b", "A", "S"}

Lower_Keep(c) == c

\* str.lower() on one character
Lower(c) == IF c = "A" THEN "a" ELSE IF c = "B" THEN "b" ELSE IF c = "S" THEN "s" ELSE c
LowerStr(str) == [i \in 1..Len(str) |-> Lower(str[i])]

DigitValue(key) ==
    CASE key = "1" -> 1 [] key = "2" -> 2 [] key = "3" -> 3 [] key = "4" -> 4 [] key = "5" -> 5

ui == [running |-> running, paused |-> paused, current_layout |-> current_layout,
       overlay |-> overlay, process_sort_key |-> process_sort_key,
       process_sort_reverse |-> process_sort_reverse,
       process_filter |-> process_filter, filter_buffer |-> filter_buffer,
       process_scroll |-> process_scroll]

ScrollProcesses_NoClamp(u, delta) ==
    [u EXCEPT !.process_scroll = u.process_scroll + delta]

\* SysView.scroll_processes
ScrollProcesses(u, delta) ==
    [u EXCEPT !.process_scroll = Max(0, u.process_scroll + delta)]

ToggleOverlay_OpenOnly(u, type) == [u EXCEPT !.overlay = Some([type |-> type])]

\* SysView.toggle_help / toggle_menu / toggle_process_filter with show_overlay
ToggleOverlay(u, type) ==
    IF u.overlay # None /\ u.overlay.v.type = type
    THEN [u EXCEPT !.overlay = None]
    ELSE [u EXCEPT !.overlay = Some([type |-> type])]

TogglePause_PauseOnly(u) == [u EXCEPT !.paused = TRUE]

\* SysView.toggle_pause
TogglePause(u) == [u EXCEPT !.paused = ~u.paused]

ToggleSort_ToMemory(u) == [u EXCEPT !.process_sort_key = "memory_percent"]

\* SysView.toggle_sort
ToggleSort(u) ==
    IF u.process_sort_key = "cpu_percent"
    THEN [u EXCEPT !.process_sort_key = "memory_percent"]
    ELSE [u EXCEPT !.process_sort_key = "cpu_percent"]

\* SysView.change_layout: the index is assigned before the preset test, whose body is `pass`
ChangeLayout(u, layout_num) == [u EXCEPT !.current_layout = layout_num - 1]

\* handle_keyboard lines 114-123: the keys of the filter dialogue
FilterKey(u, key) ==
    IF key = "CR" THEN [u EXCEPT !.process_filter = u.filter_buffer, !.overlay = None]
    ELSE IF key = "ESC" THEN [u EXCEPT !.overlay = None]
    ELSE IF key = "BS"
         THEN [u EXCEPT !.filter_buffer = SubSeq(u.filter_buffer, 1, Len(u.filter_buffer) - 1)]
    ELSE [u EXCEPT !.filter_buffer = Append(u.filter_buffer, key)]

OrdinaryKey_AnyOverlay(u, k) ==
    LET key == Lower(k)
    IN  IF key = "q" THEN [u EXCEPT !.running = FALSE]
        ELSE IF key = "p" THEN TogglePause(u)
        ELSE IF key = "h" THEN ToggleOverlay(u, "help")
        ELSE IF key = "m" THEN ToggleOverlay(u, "menu")
        ELSE IF key = "s" THEN ToggleSort(u)
        ELSE IF key = "f" THEN ToggleOverlay(u, "filter")
        ELSE IF key \in {"1", "2", "3", "4", "5"} THEN ChangeLayout(u, DigitValue(key))
        ELSE FilterKey(u, key)

\* handle_keyboard lines 99-123: an ordinary key, lower-cased; hotkeys come first
OrdinaryKey(u, k) ==
    LET key == Lower(k)
    IN  IF key = "q" THEN [u EXCEPT !.running = FALSE]
        ELSE IF key = "p" THEN TogglePause(u)
        ELSE IF key = "h" THEN ToggleOverlay(u, "help")
        ELSE IF key = "m" THEN ToggleOverlay(u, "menu")
        ELSE IF key = "s" THEN ToggleSort(u)
        ELSE IF key = "f" THEN ToggleOverlay(u, "filter")
        ELSE IF key \in {"1", "2", "3", "4", "5"} THEN ChangeLayout(u, DigitValue(key))
        ELSE IF u.overlay # None /\ u.overlay.v.type = "filter" THEN FilterKey(u, key)
        ELSE u

\* handle_keyboard lines 85-125
KeyEffect(u, k) ==
    IF k = NoKey THEN u                              \* kbhit() is false
    ELSE IF k = "BAD" THEN u                         \* decode raises, except: pass
    ELSE IF k \in SpecialKeys
         THEN IF k = "UP" THEN ScrollProcesses(u, -1)
              ELSE IF k = "DOWN" THEN ScrollProcesses(u, 1)
              ELSE IF k = "PGUP" THEN ScrollProcesses(u, -10)
              ELSE IF k = "PGDN" THEN ScrollProcesses(u, 10)
              ELSE u
    ELSE OrdinaryKey(u, k)

\* the SysView object: its interaction fields, its SystemStats and its cached_stats
app == [ui |-> ui, engine |-> engine, cached_stats |-> cached_stats]

HandleKeyboard_ClearsHistory(a, k) ==
    [a EXCEPT !.ui = KeyEffect(a.ui, k), !.engine.cpu_history = <<>>]

\* SysView.handle_keyboard on the whole object: every assignment of lines 85-209 is to
\* an interaction field of self; self.stats and self.cached_stats are not touched
HandleKeyboard(a, k) == [a EXCEPT !.ui = KeyEffect(a.ui, k)]

(***************************************************************************)
(* History variable ftrace: the dialogue that starts when `f` is pressed   *)
(* with no overlay shown, the printable keys typed since (w), and how it   *)
(* ended.  Any other key, or a key after the end, drops the dialogue.      *)
(***************************************************************************)
Idle == [on |-> FALSE, w |-> <<>>, before |-> <<>>, end |-> "none"]

TraceKey(tr, u, k) ==
    IF k = NoKey THEN tr
    ELSE IF tr.on /\ tr.end = "none"
         THEN IF k \in Printable THEN [tr EXCEPT !.w = Append(tr.w, k)]
              ELSE IF k = "CR" THEN [tr EXCEPT !.end = "enter"]
              ELSE IF k = "ESC" THEN [tr EXCEPT !.end = "escape"]
              ELSE Idle
    ELSE IF k = "f" /\ u.overlay = None
         THEN [on |-> TRUE, w |-> <<>>, before |-> u.process_filter, end |-> "none"]
    ELSE Idle

(***************************************************************************)
(* Drawer.create_graph (draw.py:70-106).  A row of the grid is a str; the  *)
(* glyph ramps are BRAILLE_CHARS (64 glyphs), BLOCK_CHARS (8), TTY_CHARS   *)
(* (3), a glyph being named by its ramp and its index.  The quotients of   *)
(* the small integers used here are the same in double arithmetic.         *)
(***************************************************************************)
GraphChars(graph_type) ==
    IF graph_type = "braille" THEN [i \in 1..64 |-> <<"braille", i - 1>>]
    ELSE IF graph_type = "block" THEN [i \in 1..8 |-> <<"block", i - 1>>]
    ELSE [i \in 1..3 |-> <<"tty", i - 1>>]

BlankGrid_Swapped(width, height) == [y \in 1..width |-> [x \in 1..height |-> " "]]

\* [" " * width] * height
BlankGrid(width, height) == [y \in 1..height |-> [x \in 1..width |-> " "]]

\* values_list[-width:], when the list is longer than width; [-0:] is the whole list
LastValues(values_list, width) ==
    IF width = 0 THEN values_list
    ELSE SubSeq(values_list, Len(values_list) - width + 1, Len(values_list))

\* max(values_list), the list not empty
MaxOf(values_list) ==
    CHOOSE m \in {values_list[i] : i \in 1..Len(values_list)} :
        \A i \in 1..Len(values_list) : values_list[i] <= m

\* int(x) of a float: the fraction is cut off, towards zero
IntOf(x) == IF x.num >= 0 THEN x.num \div x.den ELSE -((-x.num) \div x.den)

\* min(height - 1, int((v / max_val) * height))
Level(v, max_val, height) ==
    LET ratio == TrueDiv(v, max_val)
    IN  Min(height - 1, IntOf(TrueDiv(ratio.num * height, ratio.den)))

CellFilled_Strict(val, y) == val > y

\* draw.py line 101
CellFilled(val, y) == val >= y

CreateGraph(values, width, height, graph_type) ==
    LET chars == GraphChars(graph_type)
    IN  IF Len(values) = 0 THEN BlankGrid(width, height)
        ELSE LET cut == IF Len(values) > width THEN LastValues(values, width) ELSE values
                 max_val == MaxOf(cut)
             IN  IF max_val = 0 THEN BlankGrid(width, height)
                 ELSE LET values_list ==
                              IF Len(cut) < width
                              THEN [i \in 1..(width - Len(cut)) |-> 0] \o cut
                              ELSE cut
                          normalized == [x \in 1..Len(values_list) |->
                                            Level(values_list[x], max_val, height)]
                      IN  [row \in 1..height |->
                              [x \in 1..width |->
                                  IF CellFilled(normalized[x], height - row)
                                  THEN chars[Len(chars)] ELSE chars[1]]]

(***************************************************************************)
(* Drawer.draw_processes and the filter of SysView.update                  *)
(***************************************************************************)
\* sorted(stats, key=cpu_percent, reverse=True): stable, equal keys keep their order
SortRank(stats, i) ==
    Cardinality({j \in 1..Len(stats) :
        \/ stats[j].cpu_percent > stats[i].cpu_percent
        \/ stats[j].cpu_percent = stats[i].cpu_percent /\ j < i}) + 1

SortedProcs(stats) ==
    LET n == Len(stats)
        rank == SubSeq([i \in 1..n |-> SortRank(stats, i)], 1, n)
    IN  SubSeq([r \in 1..n |-> stats[CHOOSE i \in 1..n : rank[i] = r]], 1, n)

VisibleRange_NoReclamp(n, scroll_position) ==
    [start_idx |-> scroll_position, end_idx |-> Min(scroll_position + PageSize, n)]

\* draw.py lines 366-373: the slice [start_idx, end_idx) of the sorted list
VisibleRange(n, scroll_position) ==
    LET start_idx == scroll_position
        end_idx == Min(start_idx + PageSize, n)
    IN  IF start_idx >= n
        THEN [start_idx |-> Max(0, n - PageSize), end_idx |-> n]
        ELSE [start_idx |-> start_idx, end_idx |-> end_idx]

\* Python's seq[a:b]: a negative index counts from the end, and both are cut to the list
PySlice(seq, a, b) ==
    LET n == Len(seq)
        lo == IF a < 0 THEN Max(0, n + a) ELSE Min(a, n)
        hi == IF b < 0 THEN Max(0, n + b) ELSE Min(b, n)
    IN  SubSeq(seq, lo + 1, hi)

DrawProcesses(stats, scroll_position) ==
    LET sorted_procs == SortedProcs(stats)
        r == VisibleRange(Len(sorted_procs), scroll_position)
        shown == PySlice(sorted_procs, r.start_idx, r.end_idx)
    IN  [rows |-> [i \in 1..Len(shown) |-> shown[i].pid],
         start_idx |-> r.start_idx, end_idx |-> r.end_idx, total |-> Len(sorted_procs)]

\* Python's `sub in str`
Contains(str, sub) ==
    \E i \in 0..(Len(str) - Len(sub)) : SubSeq(str, i + 1, i + Len(sub)) = sub

FilterProcs_CaseSensitive(proc_stats, filter) ==
    IF filter # <<>>
    THEN SelectSeq(proc_stats, LAMBDA p : Contains(p.name, filter))
    ELSE proc_stats

\* __main__.py lines 276-277
FilterProcs(proc_stats, filter) ==
    IF filter # <<>>
    THEN SelectSeq(proc_stats, LAMBDA p : Contains(LowerStr(p.name), LowerStr(filter)))
    ELSE proc_stats

(***************************************************************************)
(* SysView.update lines 225-305: the frame built from the cached snapshot. *)
(* With an overlay the overlay's panel alone is returned.                  *)
(***************************************************************************)
ComposeFrame(c, u) ==
    IF u.overlay # None
    THEN [kind |-> "overlay", type |-> u.overlay.v.type,
          text |-> IF u.overlay.v.type = "filter" THEN u.filter_buffer ELSE <<>>]
    ELSE [kind |-> "layout", paused |-> u.paused, system |-> c.system.v,
          cpu |-> c.cpu.v, memory |-> c.memory.v, network |-> c.network.v,
          disks |-> c.disk.v,
          processes |-> DrawProcesses(FilterProcs(c.processes.v, u.process_filter),
                                      u.process_scroll),
          battery |-> c.battery]


(***************************************************************************)
(* State after SysView.__init__ (and SystemStats.__init__, which takes the *)
(* first counter reading and the first clock reading)                      *)
(***************************************************************************)
NoStats == [cpu |-> None, memory |-> None, disk |-> None, network |-> None,
            processes |-> None, system |-> None, battery |-> None]

\* SystemStats.__init__
Engine0(boot_io) ==
    [cpu_history |-> <<>>, memory_history |-> <<>>, net_history |-> <<>>,
     prev_net_io |-> boot_io, prev_time |-> 0,
     peak_send_speed |-> Zero, peak_recv_speed |-> Zero,
     process_cpu_history |-> <<>>]

Ui0_Paused ==
    [running |-> TRUE, paused |-> TRUE, current_layout |-> 0, overlay |-> None,
     process_sort_key |-> "cpu_percent", process_sort_reverse |-> TRUE,
     process_filter |-> <<>>,
     filter_buffer |-> <<>>, process_scroll |-> 0]

\* SysView.__init__
Ui0 ==
    [running |-> TRUE, paused |-> FALSE, current_layout |-> 0, overlay |-> None,
     process_sort_key |-> "cpu_percent", process_sort_reverse |-> TRUE,
     process_filter |-> <<>>,
     filter_buffer |-> <<>>, process_scroll |-> 0]

Log0(boot_io) ==
    [cpu |-> <<>>, mem |-> <<>>, net |-> <<>>, procs |-> <<>>, battery |-> <<>>,
     io |-> <<[bytes_sent |-> boot_io.bytes_sent,
               bytes_recv |-> boot_io.bytes_recv, time |-> 0]>>]

IsState(e, u, c, f, p, log) ==
    /\ cpu_history = e.cpu_history
    /\ memory_history = e.memory_history
    /\ net_history = e.net_history
    /\ prev_net_io = e.prev_net_io
    /\ prev_time = e.prev_time
    /\ peak_send_speed = e.peak_send_speed
    /\ peak_recv_speed = e.peak_recv_speed
    /\ process_cpu_history = e.process_cpu_history
    /\ running = u.running
    /\ paused = u.paused
    /\ current_layout = u.current_layout
    /\ overlay = u.overlay
    /\ process_sort_key = u.process_sort_key
    /\ process_sort_reverse = u.process_sort_reverse
    /\ process_filter = u.process_filter
    /\ filter_buffer = u.filter_buffer
    /\ process_scroll = u.process_scroll
    /\ cached_stats = c
    /\ frame = f
    /\ pc = p
    /\ hist_log = log
    /\ ftrace = Idle

\* no operation invoked yet
NoCall == [fn |-> "none"]

\* DEFAULT_CONFIG has no "presets" entry, and no call is recorded
DefaultEnv == preset_count = 0 /\ kbd = <<>> /\ call = NoCall /\ ret = None

InitApp(boot_io) ==
    /\ IsState(Engine0(boot_io), Ui0, NoStats, None, "first", Log0(boot_io))
    /\ DefaultEnv

SetEngine(e) ==
    /\ cpu_history' = e.cpu_history
    /\ memory_history' = e.memory_history
    /\ net_history' = e.net_history
    /\ prev_net_io' = e.prev_net_io
    /\ prev_time' = e.prev_time
    /\ peak_send_speed' = e.peak_send_speed
    /\ peak_recv_speed' = e.peak_recv_speed
    /\ process_cpu_history' = e.process_cpu_history

SetUi(u) ==
    /\ running' = u.running
    /\ paused' = u.paused
    /\ current_layout' = u.current_layout
    /\ overlay' = u.overlay
    /\ process_sort_key' = u.process_sort_key
    /\ process_sort_reverse' = u.process_sort_reverse
    /\ process_filter' = u.process_filter
    /\ filter_buffer' = u.filter_buffer
    /\ process_scroll' = u.process_scroll

ShouldSample_Always(u) == TRUE

\* __main__.py line 214
ShouldSample(u) == ~u.paused

(***************************************************************************)
(* SysView.update() followed by live.update(): one frame, for the          *)
(* interaction state u in force when update() runs.  An exception raised   *)
(* by the sampling leaves main() (pc = "crashed") and no frame is shown.   *)
(***************************************************************************)
UpdateApp(a, s) ==
    IF ShouldSample(a.ui)
    THEN LET r == Ingest(a.engine, a.cached_stats, hist_log, s)
         IN  /\ SetEngine(r.e)
             /\ cached_stats' = r.c
             /\ hist_log' = r.log
             /\ IF r.raised
                THEN pc' = "crashed" /\ frame' = frame
                ELSE pc' = "loop" /\ frame' = Some(ComposeFrame(r.c, a.ui))
    ELSE /\ SetEngine(a.engine)
         /\ cached_stats' = a.cached_stats
         /\ hist_log' = hist_log
         /\ frame' = Some(ComposeFrame(a.cached_stats, a.ui))
         /\ pc' = "loop"

\* update() on the application as it stands, shown for the interaction state u
Update(u, s) == UpdateApp([app EXCEPT !.ui = u], s)

\* main() line 321: Live(app.update(), ...), the frame shown before the loop starts
FirstFrame(s) ==
    /\ pc = "first"
    /\ Update(ui, s)
    /\ UNCHANGED uiVars

(***************************************************************************)
(* main() lines 326-329, one iteration of `while app.running`:             *)
(* handle_keyboard() reads key k (NoKey: none is waiting), then update()   *)
(* and live.update(), then the sleep.                                      *)
(***************************************************************************)
Tick(k, s) ==
    /\ pc = "loop"
    /\ running
    /\ LET a == HandleKeyboard(app, k)
       IN  /\ SetUi(a.ui)
           /\ UpdateApp(a, s)

\* `while app.running` is false: the loop and the Live context end
Exit ==
    /\ pc = "loop"
    /\ ~running
    /\ pc' = "done"
    /\ UNCHANGED <<engineVars, uiVars, cached_stats, frame, hist_log>>

(***************************************************************************)
(* Provider readings                                                       *)
(***************************************************************************)
\* a process of the enumeration; memory_info is Some(sizes), or None when
\* proc.memory_info() raises
Proc(pid, name, cpu, mem) ==
    [pid |-> pid, name |-> name, cpu_percent |-> cpu, memory_percent |-> mem,
     memory_info |-> Some([rss |-> 4096, vms |-> 8192])]

\* what psutil.cpu_freq() reports on a machine that reports it
CpuFreq == Some([current |-> 2400, min |-> 800, max |-> 3600])

ProcA == Proc(1, <<"a", "b">>, 30, 5)
ProcB == Proc(2, <<"B", "a">>, 60, 20)
ProcC == Proc(3, <<"s", "s", "h">>, 30, 40)

NoIo == [bytes_sent |-> 0, bytes_recv |-> 0]

(***************************************************************************)
(* Spec: the whole application, every key, few readings.  A paused tick    *)
(* reads nothing from the provider, so one reading stands for all.         *)
(***************************************************************************)
Keys == {NoKey, "q", "p", "h", "m", "s", "f", "1", "5", "a", "A", "CR", "ESC", "BS",
         "UP", "DOWN", "PGUP", "PGDN", "DEL", "BAD"}

Samples == [cpu : {10}, freq : {CpuFreq}, mem : {40}, battery : {Battery},
            d_sent : {100}, d_recv : {50}, dt : {0, 1},
            procs : {<<ProcA, ProcB, ProcC>>}]

ReadingsFor(k, S) ==
    IF ShouldSample(KeyEffect(ui, k)) THEN S ELSE {CHOOSE s \in S : TRUE}

\* the bound on the samples ingested: a tick that samples needs room for one more
Room(k, max) == ShouldSample(KeyEffect(ui, k)) => Len(hist_log.cpu) < max

Init == InitApp(NoIo)

Start ==
    /\ \E s \in Samples : FirstFrame(s)
    /\ UNCHANGED <<ftrace, call, ret, preset_count, kbd>>

Step ==
    /\ \E k \in Keys :
          Room(k, MaxSamples) /\ \E s \in ReadingsFor(k, Samples) : Tick(k, s)
    /\ Len(filter_buffer') <= MaxBuf
    /\ process_scroll' <= MaxScroll
    /\ UNCHANGED <<ftrace, call, ret, preset_count, kbd>>

Stop == Exit /\ UNCHANGED <<ftrace, call, ret, preset_count, kbd>>

Next == Start \/ Step \/ Stop

Spec == Init /\ [][Next]_vars

(***************************************************************************)
(* SpecFilter: the filter dialogue.  The keys that open, fill and close    *)
(* it, with ftrace recording the dialogue.                                 *)
(***************************************************************************)
FilterKeys == {NoKey, "f", "s", "h", "a", "CR", "ESC", "BS"}

FilterStart ==
    /\ \E s \in Samples : FirstFrame(s)
    /\ UNCHANGED <<ftrace, call, ret, preset_count, kbd>>

FilterStep ==
    /\ \E k \in FilterKeys :
          /\ Room(k, MaxFilterSamples)
          /\ \E s \in ReadingsFor(k, Samples) : Tick(k, s)
          /\ ftrace' = TraceKey(ftrace, ui, k)
    /\ Len(filter_buffer') <= MaxTyped
    /\ Len(ftrace'.w) <= MaxTyped
    /\ UNCHANGED <<call, ret, preset_count, kbd>>

NextFilter == FilterStart \/ FilterStep

SpecFilter == Init /\ [][NextFilter]_vars


(***************************************************************************)
(* SpecEngine: the sampling engine under varied readings: counters that    *)
(* grow or stand still, a clock that steps forward, stands still or steps  *)
(* back, processes that come and go.  Keys: none, or p.                    *)
(***************************************************************************)
EngKeys == {NoKey, "p"}

EngSamples == [cpu : {10}, freq : {CpuFreq}, mem : {40}, battery : {Battery}, d_sent : {0, 100, 150}, d_recv : {50},
               dt : {-1, 0, 1, 2},
               procs : {<<>>, <<ProcA, ProcB>>, <<ProcB, ProcC>>}]

BootIo == {NoIo, [bytes_sent |-> 1000, bytes_recv |-> 500]}

InitEngine == \E io \in BootIo : InitApp(io)

EngStart ==
    /\ \E s \in EngSamples : FirstFrame(s)
    /\ UNCHANGED <<ftrace, call, ret, preset_count, kbd>>

EngStep ==
    /\ \E k \in EngKeys :
          Room(k, MaxEngSamples) /\ \E s \in ReadingsFor(k, EngSamples) : Tick(k, s)
    /\ UNCHANGED <<ftrace, call, ret, preset_count, kbd>>

NextEngine == EngStart \/ EngStep

SpecEngine == InitEngine /\ [][NextEngine]_vars

(***************************************************************************)
(* SpecNet: network rates.  Five send rates at a one-second cadence (the   *)
(* receive counter grows by 90 minus the send growth), one reading two     *)
(* seconds apart, one after the clock stepped back, one with no elapsed    *)
(* time.                                                                   *)
(***************************************************************************)
NetReading(d, dt) ==
    [cpu |-> 10, freq |-> CpuFreq, mem |-> 40, battery |-> Battery, d_sent |-> d, d_recv |-> 90 - d, dt |-> dt,
     procs |-> <<ProcA>>]

NetSamples == {NetReading(d, 1) : d \in {10, 20, 30, 50, 80}}
                 \cup {NetReading(50, 2), NetReading(30, -1), NetReading(20, 0)}

NetStart ==
    /\ \E s \in NetSamples : FirstFrame(s)
    /\ UNCHANGED <<ftrace, call, ret, preset_count, kbd>>

NetStep ==
    /\ Room(NoKey, MaxNetSamples)
    /\ \E s \in NetSamples : Tick(NoKey, s)
    /\ UNCHANGED <<ftrace, call, ret, preset_count, kbd>>

NextNet == NetStart \/ NetStep

SpecNet == Init /\ [][NextNet]_vars

(***************************************************************************)
(* SpecHist: a long run.  The n-th sample's readings are fixed by n, so    *)
(* that more than 100 samples are reached; the clock may still stand       *)
(* still, and p may be pressed at any tick.                                *)
(***************************************************************************)
LongReading(n, dt) ==
    [cpu |-> n % 101, freq |-> CpuFreq, mem |-> (7 * n) % 101, battery |-> Battery, d_sent |-> n, d_recv |-> 2 * n,
     dt |-> dt, procs |-> <<ProcA>>]

LongSamples == {LongReading(Len(hist_log.cpu) + 1, dt) : dt \in {0, 1}}

HistStart ==
    /\ \E s \in LongSamples : FirstFrame(s)
    /\ UNCHANGED <<ftrace, call, ret, preset_count, kbd>>

HistStep ==
    /\ \E k \in EngKeys :
          Room(k, MaxLongSamples) /\ \E s \in ReadingsFor(k, LongSamples) : Tick(k, s)
    /\ UNCHANGED <<ftrace, call, ret, preset_count, kbd>>

NextHist == HistStart \/ HistStep

SpecHist == Init /\ [][NextHist]_vars

(***************************************************************************)
(* SpecScroll: scrolling a list of L processes.  It starts in the state    *)
(* after the first frame of such a list and the key p (paused, so that     *)
(* the list stays), and reads the arrow and page keys.                     *)
(***************************************************************************)
ScrollReading(L) ==
    [cpu |-> 10, freq |-> CpuFreq, mem |-> 40, battery |-> Battery, d_sent |-> 100, d_recv |-> 50, dt |-> 1,
     procs |-> [i \in 1..L |-> Proc(i, <<"a">>, (7 * i) % 5, 5)]]

ScrollKeys == {NoKey, "UP", "DOWN", "PGUP", "PGDN"}

InitScroll ==
    \E L \in 0..MaxProcs :
        LET r == Ingest(Engine0(NoIo), NoStats, Log0(NoIo), ScrollReading(L))
            u == KeyEffect(Ui0, "p")
        IN  IsState(r.e, u, r.c, Some(ComposeFrame(r.c, u)), "loop", r.log) /\ DefaultEnv

ScrollStep ==
    /\ \E k \in ScrollKeys : \E s \in ReadingsFor(k, Samples) : Tick(k, s)
    /\ process_scroll' <= MaxPageScroll
    /\ UNCHANGED <<ftrace, call, ret, preset_count, kbd>>

NextScroll == ScrollStep

SpecScroll == InitScroll /\ [][NextScroll]_vars


(***************************************************************************)
(* Functions invoked directly.  `call` holds the function and arguments,   *)
(* `ret` the value returned; the application's own state stays as          *)
(* constructed.                                                            *)
(***************************************************************************)
appVars == <<engineVars, uiVars, cached_stats, preset_count, kbd, pc, frame, hist_log,
             ftrace>>

CallInit(inputs) ==
    /\ IsState(Engine0(NoIo), Ui0, NoStats, None, "first", Log0(NoIo))
    /\ preset_count = 0
    /\ kbd = <<>>
    /\ call \in inputs
    /\ ret = None

\* the orderings of the elements of a set, each element once
Arrangements(S) ==
    UNION {{seq \in [1..n -> S] : \A i, j \in 1..n : i # j => seq[i] # seq[j]} :
           n \in 0..Cardinality(S)}

(***************************************************************************)
(* SpecSort: the process stage of SysView.update (lines 275-281): the      *)
(* filter, then Drawer.draw_processes, on process lists in every order,    *)
(* with processes of equal cpu_percent and of equal memory_percent.        *)
(***************************************************************************)
ProcD == Proc(4, <<"a", "s">>, 10, 20)

SortInputs ==
    [fn : {"draw_processes"},
     stats : Arrangements({ProcA, ProcB, ProcC, ProcD}),
     filter : {<<>>, <<"a">>, <<"S">>, <<"b">>, <<"B", "a">>},
     scroll_position : {0, 1}]

ShowProcesses ==
    /\ call.fn = "draw_processes"
    /\ ret = None
    /\ ret' = Some(DrawProcesses(FilterProcs(call.stats, call.filter), call.scroll_position))
    /\ UNCHANGED <<appVars, call>>

NextSort == ShowProcesses

SpecSort == CallInit(SortInputs) /\ [][NextSort]_vars

(***************************************************************************)
(* SpecGraph: Drawer.create_graph on short series of small values (the     *)
(* all-zero series among them, and 0, H, 2H for every height H), for       *)
(* every width and height up to the bounds and each glyph ramp.            *)
(***************************************************************************)
\* a series of rates may hold negative values: get_network_stats reports a negative
\* rate when a counter or the clock steps back (system.py lines 207-212)
GraphSeries ==
    UNION {[1..n -> {0, 1, 3}] : n \in 0..MaxSeriesLen}
        \cup {<<0, H, 2 * H>> : H \in 1..MaxHeight}
        \cup {<<-1, 3>>, <<3, -1, 2>>, <<-2, 3, 1>>}

GraphInputs ==
    [fn : {"create_graph"}, values : GraphSeries, width : 0..MaxWidth,
     height : 0..MaxHeight, graph_type : {"braille", "block", "tty"}]

DrawGraph ==
    /\ call.fn = "create_graph"
    /\ ret = None
    /\ ret' = Some(CreateGraph(call.values, call.width, call.height, call.graph_type))
    /\ UNCHANGED <<appVars, call>>

NextGraph == DrawGraph

SpecGraph == CallInit(GraphInputs) /\ [][NextGraph]_vars

(***************************************************************************)
(* SpecKeys: the interaction state machine.  Every key but the page keys   *)
(* at every tick, one reading, and a configuration with no layout presets  *)
(* or with MaxPresets of them; `call` records the key the tick's           *)
(* handle_keyboard read.                                                   *)
(***************************************************************************)
KeyCall(k) == [fn |-> "handle_keyboard", key |-> k]

AllKeys == (Keys \ {"PGUP", "PGDN"}) \cup {"S"}

KeySamples == [cpu : {10}, freq : {CpuFreq}, mem : {40}, battery : {Battery}, d_sent : {100}, d_recv : {50}, dt : {1},
               procs : {<<ProcA, ProcB, ProcC>>}]

InitKeys ==
    /\ IsState(Engine0(NoIo), Ui0, NoStats, None, "first", Log0(NoIo))
    /\ preset_count \in {0, MaxPresets}
    /\ kbd = <<>>
    /\ call = NoCall
    /\ ret = None

KeysStart ==
    /\ \E s \in KeySamples : FirstFrame(s)
    /\ UNCHANGED <<ftrace, call, ret, preset_count, kbd>>

KeysStep ==
    /\ \E k \in AllKeys :
          /\ Room(k, MaxKeySamples)
          /\ \E s \in ReadingsFor(k, KeySamples) : Tick(k, s)
          /\ call' = KeyCall(k)
    /\ Len(filter_buffer') <= MaxKeyBuf
    /\ process_scroll' <= MaxKeyScroll
    /\ UNCHANGED <<ftrace, ret, preset_count, kbd>>

KeysStop == Exit /\ UNCHANGED <<ftrace, call, ret, preset_count, kbd>>

NextKeys == KeysStart \/ KeysStep \/ KeysStop

SpecKeys == InitKeys /\ [][NextKeys]_vars

(***************************************************************************)
(* SpecPaging: the arrow and page keys, mixed with the keys that pause,    *)
(* open the filter dialogue and type into it.                              *)
(***************************************************************************)
PagingKeys == {NoKey, "UP", "DOWN", "PGUP", "PGDN", "p", "f", "a"}

PagingStart ==
    /\ \E s \in KeySamples : FirstFrame(s)
    /\ UNCHANGED <<ftrace, call, ret, preset_count, kbd>>

PagingStep ==
    /\ \E k \in PagingKeys :
          /\ Room(k, MaxKeySamples)
          /\ \E s \in ReadingsFor(k, KeySamples) : Tick(k, s)
          /\ call' = KeyCall(k)
    /\ Len(filter_buffer') <= MaxKeyBuf
    /\ process_scroll' <= MaxPagingScroll
    /\ UNCHANGED <<ftrace, ret, preset_count, kbd>>

NextPaging == PagingStart \/ PagingStep

SpecPaging == Init /\ [][NextPaging]_vars

(***************************************************************************)
(* SpecProvider: one sample taken by a freshly constructed SystemStats     *)
(* (the get_* calls of SysView.update, lines 215-221) on machines whose    *)
(* psutil reports, or cannot report, the CPU frequency and a process's     *)
(* memory sizes.                                                           *)
(***************************************************************************)
\* a process whose memory_info() raises (AccessDenied)
ProcDenied == [Proc(5, <<"n", "o">>, 20, 10) EXCEPT !.memory_info = None]

\* a machine whose cpu_freq() reports zeros
ZeroFreq == Some([current |-> 0, min |-> 0, max |-> 0])

ProviderInputs ==
    [fn : {"sample"},
     s : [cpu : {0, 10, 50}, freq : {None, ZeroFreq, CpuFreq}, mem : {40}, battery : {Battery},
          d_sent : {100}, d_recv : {50}, dt : {1},
          procs : Arrangements({ProcA, ProcB, ProcDenied})]]

TakeSample ==
    /\ call.fn = "sample"
    /\ ret = None
    /\ ret' = Some(Ingest(Engine0(NoIo), NoStats, Log0(NoIo), call.s).c)
    /\ UNCHANGED <<appVars, call>>

NextProvider == TakeSample

SpecProvider == CallInit(ProviderInputs) /\ [][NextProvider]_vars

(***************************************************************************)
(* SpecQueue: keys typed ahead.  Up to MaxPending keys wait in the console *)
(* when the loop starts and none is typed afterwards; each iteration polls *)
(* the console as handle_keyboard does.  call records the keys typed and   *)
(* the number of iterations run.                                           *)
(***************************************************************************)
PollKey_Newest(buf) ==
    IF buf = <<>> THEN [key |-> NoKey, rest |-> <<>>]
    ELSE [key |-> buf[Len(buf)], rest |-> <<>>]

\* handle_keyboard lines 85-89: kbhit() false reads nothing and returns at once; else
\* getch() takes the oldest key (both bytes of a \xe0 pair)
PollKey(buf) ==
    IF buf = <<>> THEN [key |-> NoKey, rest |-> <<>>]
    ELSE [key |-> Head(buf), rest |-> Tail(buf)]

QueueKeys == {"p", "f", "a", "q", "CR", "DOWN", "h"}

InitQueue ==
    /\ IsState(Engine0(NoIo), Ui0, NoStats, None, "first", Log0(NoIo))
    /\ preset_count = 0
    /\ kbd \in UNION {[1..n -> QueueKeys] : n \in 0..MaxPending}
    /\ call = [fn |-> "main", typed |-> kbd, ticks |-> 0]
    /\ ret = None

QueueStart ==
    /\ \E s \in KeySamples : FirstFrame(s)
    /\ UNCHANGED <<ftrace, call, ret, preset_count, kbd>>

QueueStep ==
    /\ call.ticks <= MaxPending
    /\ LET polled == PollKey(kbd)
       IN  /\ \E s \in KeySamples : Tick(polled.key, s)
           /\ kbd' = polled.rest
    /\ call' = [call EXCEPT !.ticks = @ + 1]
    /\ UNCHANGED <<ftrace, ret, preset_count>>

QueueStop == Exit /\ UNCHANGED <<ftrace, call, ret, preset_count, kbd>>

NextQueue == QueueStart \/ QueueStep \/ QueueStop

SpecQueue == InitQueue /\ [][NextQueue]_vars

(***************************************************************************)
(* SpecProc: a run long enough to fill a per-process history.  Process 1   *)
(* is in every enumeration; process 2 may be missing from the early ones   *)
(* and from a late one, and comes back.  The cpu_percent values are fixed  *)
(* by the sample number.                                                   *)
(***************************************************************************)
\* the sample numbers at which process 2 may be missing
GapSamples == {1, 2, 3, 12}

ProcReading(n, with2) ==
    [cpu |-> 10, freq |-> CpuFreq, mem |-> 40, battery |-> Battery, d_sent |-> 100, d_recv |-> 50, dt |-> 1,
     procs |-> <<Proc(1, <<"a", "b">>, (3 * n) % 7, 5)>>
                   \o (IF with2 THEN <<Proc(2, <<"B", "a">>, n % 5, 20)>> ELSE <<>>)]

ProcSamples ==
    LET n == Len(hist_log.cpu) + 1
    IN  {ProcReading(n, with2) : with2 \in IF n \in GapSamples THEN {TRUE, FALSE} ELSE {TRUE}}

ProcStart ==
    /\ \E s \in ProcSamples : FirstFrame(s)
    /\ UNCHANGED <<ftrace, call, ret, preset_count, kbd>>

ProcStep ==
    /\ \E k \in {NoKey, "p"} :
          Room(k, MaxProcSamples) /\ \E s \in ReadingsFor(k, ProcSamples) : Tick(k, s)
    /\ UNCHANGED <<ftrace, call, ret, preset_count, kbd>>

NextProc == ProcStart \/ ProcStep

SpecProc == Init /\ [][NextProc]_vars

(***************************************************************************)
(* SpecSignal: main() from the installation of the SIGINT handler (line    *)
(* 315).  At pc = "boot" the local variable app is not yet assigned: the   *)
(* application variables already hold what SysView(theme) will give them,  *)
(* and nothing reads them before Construct.  SIGINT arrives at most once,  *)
(* at any point; Python runs the handler in the main thread between two    *)
(* instructions, so a signal that arrives inside a tick or inside the      *)
(* sleep acts as one that arrives just before or after the tick.  The      *)
(* machine may have a battery.                                             *)
(***************************************************************************)
InitSignal ==
    /\ IsState(Engine0(NoIo), Ui0, NoStats, None, "boot", Log0(NoIo))
    /\ DefaultEnv

\* lines 317-318: config.set("color_theme", theme); app = SysView(theme)
Construct ==
    /\ pc = "boot"
    /\ pc' = "first"
    /\ UNCHANGED <<engineVars, uiVars, cached_stats, frame, hist_log,
                   ftrace, call, ret, preset_count, kbd>>

\* lines 312-313, signal_handler: app.running = False; before app is assigned the
\* closure's free variable is unbound and the handler raises NameError into main()
Sigint ==
    /\ call = NoCall
    /\ pc \in {"boot", "first", "loop"}
    /\ call' = [fn |-> "signal_handler", at |-> pc]
    /\ IF pc = "boot"
       THEN pc' = "crashed" /\ UNCHANGED uiVars
       ELSE pc' = pc /\ SetUi([ui EXCEPT !.running = FALSE])
    /\ UNCHANGED <<engineVars, cached_stats, frame, hist_log, ftrace, ret,
                   preset_count, kbd>>

SignalKeys == {NoKey, "q", "p", "h", "m", "s", "f", "a"}

\* the machine has a battery or has none: every sample reads what the first one read
SignalSamples ==
    {s \in [cpu : {10}, freq : {CpuFreq}, mem : {40}, battery : {Battery, OnBattery},
            d_sent : {100}, d_recv : {50}, dt : {1},
            procs : {<<ProcA, ProcB, ProcC>>}] :
        hist_log.battery = <<>> \/ s.battery = hist_log.battery[1]}

SignalStart ==
    /\ \E s \in SignalSamples : FirstFrame(s)
    /\ UNCHANGED <<ftrace, call, ret, preset_count, kbd>>

SignalStep ==
    /\ \E k \in SignalKeys :
          Room(k, MaxKeySamples) /\ \E s \in ReadingsFor(k, SignalSamples) : Tick(k, s)
    /\ Len(filter_buffer') <= MaxKeyBuf
    /\ UNCHANGED <<ftrace, call, ret, preset_count, kbd>>

SignalStop == Exit /\ UNCHANGED <<ftrace, call, ret, preset_count, kbd>>

NextSignal == Construct \/ Sigint \/ SignalStart \/ SignalStep \/ SignalStop

SpecSignal == InitSignal /\ [][NextSignal]_vars

(***************************************************************************)
(* SpecPause: sampling across pauses.  call holds the machine's clock and  *)
(* its cumulative network counters, which go on while the dashboard is     *)
(* paused: every tick the clock advances by the one-second sleep and the   *)
(* send counter by 0 or 100 bytes.  A tick that samples reads them.        *)
(***************************************************************************)
InitPause ==
    /\ IsState(Engine0(NoIo), Ui0, NoStats, None, "first", Log0(NoIo))
    /\ preset_count = 0
    /\ kbd = <<>>
    /\ call = [fn |-> "os", time |-> 0, bytes_sent |-> 0, bytes_recv |-> 0]
    /\ ret = None

\* the machine one second later
OsAfter(os, sent) ==
    [os EXCEPT !.time = @ + 1, !.bytes_sent = @ + sent, !.bytes_recv = @ + 50]

\* psutil.net_io_counters() and time.time() read on that machine
OsReading(os) ==
    [cpu |-> 10, freq |-> CpuFreq, mem |-> 40, battery |-> Battery,
     d_sent |-> os.bytes_sent - prev_net_io.bytes_sent,
     d_recv |-> os.bytes_recv - prev_net_io.bytes_recv,
     dt |-> os.time - prev_time,
     procs |-> <<ProcA>>]

PauseStart ==
    /\ \E sent \in {0, 100} :
          /\ call' = OsAfter(call, sent)
          /\ FirstFrame(OsReading(OsAfter(call, sent)))
    /\ UNCHANGED <<ftrace, ret, preset_count, kbd>>

PauseStep ==
    /\ call.time < MaxPauseTicks
    /\ \E k \in {NoKey, "p"} : \E sent \in {0, 100} :
          /\ call' = OsAfter(call, sent)
          /\ Tick(k, OsReading(OsAfter(call, sent)))
    /\ UNCHANGED <<ftrace, ret, preset_count, kbd>>

NextPause == PauseStart \/ PauseStep

SpecPause == InitPause /\ [][NextPause]_vars

(***************************************************************************)
(*                               Claims                                    *)
(***************************************************************************)
LastN(log, n) == SubSeq(log, Len(log) - n + 1, Len(log))
Last(seq) == seq[Len(seq)]
Column(pairs, j) == [i \in 1..Len(pairs) |-> pairs[i][j]]

\* a step in which get_network_stats appended a rate pair
NetIngested == Len(hist_log'.net) = Len(hist_log.net) + 1

\* a step in which a whole sample was ingested and the cached snapshot replaced
SampleIngested == NetIngested /\ pc' = "loop"

\* C1: each of the cpu, memory and network history buffers holds exactly the most recent
\* min(n, 100) of the n values appended to it, in arrival order, never more than 100; after
\* n ingested samples n values have been appended to each of the three.
C1_HistoryBuffers ==
    /\ Len(cpu_history) = Min(Len(hist_log.cpu), 100)
    /\ cpu_history = LastN(hist_log.cpu, Len(cpu_history))
    /\ Len(memory_history) = Min(Len(hist_log.mem), 100)
    /\ memory_history = LastN(hist_log.mem, Len(memory_history))
    /\ Len(net_history) = Min(Len(hist_log.net), 100)
    /\ net_history = LastN(hist_log.net, Len(net_history))
    /\ pc = "loop" => /\ Len(hist_log.mem) = Len(hist_log.cpu)
                      /\ Len(hist_log.net) = Len(hist_log.cpu)

\* more than 100 samples were ingested and the oldest values are gone
C1_Witness ==
    /\ pc = "loop"
    /\ Len(hist_log.cpu) > 100
    /\ Len(cpu_history) = 100 /\ Len(memory_history) = 100 /\ Len(net_history) = 100
    /\ cpu_history[1] # hist_log.cpu[1]

\* C2: an ingest that reports rates reports (current counter - previous counter) /
\* (current time - previous time), exactly, for both directions, and leaves the current
\* counters and time as the previous ones; counters 0, 100, 250 read at times 0, 1, 2 give
\* the rates 100 and 150; the first ingest has the constructor's reading to refer to: an
\* ingest fails only when no time elapsed since the previous reading.
C2_RateStep ==
    NetIngested =>
        LET r == IF pc' = "loop" THEN cached_stats'.network.v
                 ELSE [send_speed |-> Last(hist_log'.net)[1],
                       recv_speed |-> Last(hist_log'.net)[2]]
            now == Last(hist_log'.io)
            elapsed == now.time - prev_time
        IN  /\ elapsed # 0
            /\ r.send_speed.den > 0 /\ r.recv_speed.den > 0
            /\ r.send_speed.num * elapsed
                  = (now.bytes_sent - prev_net_io.bytes_sent) * r.send_speed.den
            /\ r.recv_speed.num * elapsed
                  = (now.bytes_recv - prev_net_io.bytes_recv) * r.recv_speed.den
            /\ Last(hist_log'.net) = <<r.send_speed, r.recv_speed>>
            /\ prev_time' = now.time
            /\ prev_net_io' = [bytes_sent |-> now.bytes_sent, bytes_recv |-> now.bytes_recv]

C2_ExampleRun ==
    /\ Len(hist_log.io) = 3
    /\ Column([i \in 1..3 |-> <<hist_log.io[i].bytes_sent, hist_log.io[i].time>>], 1)
          = <<0, 100, 250>>
    /\ Column([i \in 1..3 |-> <<hist_log.io[i].bytes_sent, hist_log.io[i].time>>], 2)
          = <<0, 1, 2>>

C2_Rates ==
    /\ [][C2_RateStep]_vars
    /\ [](C2_ExampleRun => Column(hist_log.net, 1) = <<Whole(100), Whole(150)>>)
    /\ [](pc = "crashed" =>
            hist_log.io[Len(hist_log.io)].time = hist_log.io[Len(hist_log.io) - 1].time)
    /\ [](Len(hist_log.io) = 2 /\ hist_log.io[2].time # hist_log.io[1].time
            => pc = "loop" /\ Len(hist_log.net) = 1)

C2_Witness == C2_ExampleRun /\ pc = "loop" /\ prev_time = 2 /\ prev_net_io.bytes_sent = 250

\* C3: when no time (or negative time) elapsed between two consecutive readings of the
\* network counters, the ingest completes and reports send and receive rates of 0.
C3_ZeroElapsedRate ==
    LET n == Len(hist_log.io)
    IN  (n >= 2 /\ hist_log.io[n].time <= hist_log.io[n - 1].time) =>
            /\ pc # "crashed"
            /\ Len(hist_log.net) = n - 1
            /\ Last(hist_log.net) = <<Zero, Zero>>

\* C4: the send and receive peaks never decrease; an ingest leaves each peak at the greater
\* of the previous peak and the new rate, and nothing else changes a peak; the send rates
\* 10, 50, 30, 80, 20 give the peaks 10, 50, 50, 80, 80.
Greater(x, y) == IF x.num * y.den >= y.num * x.den THEN x ELSE y

C4_PeakStep ==
    /\ ~RatLess(peak_send_speed', peak_send_speed)
    /\ ~RatLess(peak_recv_speed', peak_recv_speed)
    /\ IF NetIngested
       THEN /\ peak_send_speed' = Greater(peak_send_speed, Last(hist_log'.net)[1])
            /\ peak_recv_speed' = Greater(peak_recv_speed, Last(hist_log'.net)[2])
       ELSE UNCHANGED <<peak_send_speed, peak_recv_speed>>

ExampleRates == <<10, 50, 30, 80, 20>>
ExamplePeaks == <<10, 50, 50, 80, 80>>

C4_Peaks ==
    /\ [][C4_PeakStep]_vars
    /\ [](\A k \in 1..5 :
            Column(hist_log.net, 1) = [i \in 1..k |-> Whole(ExampleRates[i])]
                => peak_send_speed = Whole(ExamplePeaks[k]))

C4_Witness ==
    /\ Column(hist_log.net, 1) = [i \in 1..5 |-> Whole(ExampleRates[i])]
    /\ peak_send_speed = Whole(80)
    /\ peak_recv_speed = Whole(80)

\* C5: when a sample is ingested, every pid of the previous sample that the new sample does
\* not hold has no entry in process_cpu_history afterwards; the map never holds a pid that
\* the latest ingested sample does not hold.
C5_GcStep ==
    (SampleIngested /\ cached_stats.processes # None) =>
        \A pid \in PidsOf(cached_stats.processes.v) \ PidsOf(cached_stats'.processes.v) :
            pid \notin DOMAIN process_cpu_history'

C5_ProcessHistoryGc ==
    /\ [][C5_GcStep]_vars
    /\ [](cached_stats.processes # None =>
            DOMAIN process_cpu_history \subseteq PidsOf(cached_stats.processes.v))

\* pid 1 was in the previous sample (pid 2 has two values, pid 3 one) and is gone
C5_Witness ==
    /\ cached_stats.processes # None
    /\ PidsOf(cached_stats.processes.v) = {2, 3}
    /\ DOMAIN process_cpu_history = {2, 3}
    /\ Len(process_cpu_history[2]) = 2
    /\ Len(process_cpu_history[3]) = 1

\* C6: a tick in which paused is true when update() runs ingests nothing: the cached
\* snapshot, the three history buffers, the per-process histories, the peaks and the
\* previous counters and time are unchanged, and the frame shows the cached snapshot.
C6_PausedStep ==
    (pc = "loop" /\ pc' # "done" /\ paused') =>
        /\ UNCHANGED <<cpu_history, memory_history, net_history, process_cpu_history,
                       peak_send_speed, peak_recv_speed, prev_net_io, prev_time>>
        /\ UNCHANGED <<cached_stats, hist_log>>
        /\ pc' = "loop"
        /\ frame' # None
        /\ overlay' = None =>
              /\ frame'.v.kind = "layout"
              /\ frame'.v.cpu = cached_stats.cpu.v
              /\ frame'.v.memory = cached_stats.memory.v
              /\ frame'.v.disks = cached_stats.disk.v
              /\ frame'.v.network = cached_stats.network.v
              /\ frame'.v.system = cached_stats.system.v
              /\ frame'.v.battery = cached_stats.battery
              /\ frame'.v.processes.total
                    = Len(FilterProcs(cached_stats.processes.v, process_filter'))

C6_PausedTick == [][C6_PausedStep]_vars

\* a frame drawn while paused, after two samples were ingested
C6_Witness ==
    /\ paused /\ pc = "loop"
    /\ frame # None /\ frame.v.kind = "layout" /\ frame.v.paused
    /\ Len(hist_log.cpu) = 2

\* C7: `f` pressed with no overlay shown, then the characters of w, then Enter: filter_text
\* is w and no overlay is shown.
C7_FilterEnter ==
    ftrace.end = "enter" => (process_filter = ftrace.w /\ overlay = None)

\* C8: `f` pressed with no overlay shown, then the characters of w, then Escape:
\* filter_text is what it was before the `f` and no overlay is shown.
C8_FilterEscape ==
    ftrace.end = "escape" => (process_filter = ftrace.before /\ overlay = None)

\* C9: the window [start, end) drawn of a list of L processes has 0 <= start <= end <= L
\* and at most 30 rows, and holds end - start rows; of 45 processes, scroll offset 100 shows
\* [15, 45) and scroll offset 0 shows [0, 30).
DrawnWindow == frame.v.processes
ListLen == Len(FilterProcs(cached_stats.processes.v, process_filter))

C9_Window ==
    (frame # None /\ frame.v.kind = "layout") =>
        /\ 0 <= DrawnWindow.start_idx
        /\ DrawnWindow.start_idx <= DrawnWindow.end_idx
        /\ DrawnWindow.end_idx <= ListLen
        /\ DrawnWindow.end_idx - DrawnWindow.start_idx <= 30
        /\ Len(DrawnWindow.rows) = DrawnWindow.end_idx - DrawnWindow.start_idx
        /\ DrawnWindow.total = ListLen
        /\ (ListLen = 45 /\ process_scroll = 100) =>
              (DrawnWindow.start_idx = 15 /\ DrawnWindow.end_idx = 45)
        /\ (ListLen = 45 /\ process_scroll = 0) =>
              (DrawnWindow.start_idx = 0 /\ DrawnWindow.end_idx = 30)

C9_Witness ==
    /\ frame # None /\ frame.v.kind = "layout"
    /\ ListLen = 45 /\ process_scroll = 100
    /\ DrawnWindow.start_idx = 15 /\ DrawnWindow.end_idx = 45
    /\ Len(DrawnWindow.rows) = 30

\* C10: the window drawn of a list of L processes holds exactly min(30, L) rows: its start
\* is within [0, max(0, L - 30)] for every scroll offset.
C10_FullPage ==
    (frame # None /\ frame.v.kind = "layout") =>
        /\ Len(DrawnWindow.rows) = Min(30, ListLen)
        /\ DrawnWindow.start_idx >= 0
        /\ DrawnWindow.start_idx <= Max(0, ListLen - 30)

\* the lists that hold the same processes as stats, in every order
PermsOf(stats) ==
    {[i \in 1..Len(stats) |-> stats[p[i]]] : p \in Permutations(1..Len(stats))}

\* C11: for a fixed filter (and sort setting) the rows displayed are in the same order for
\* every permutation of the input process list, lists with equal sort-key values included.
C11_OrderIndependent ==
    ret # None =>
        \A other \in PermsOf(call.stats) :
            DrawProcesses(FilterProcs(other, call.filter), call.scroll_position).rows
                = ret.v.rows

AllZero(values) == \A i \in 1..Len(values) : values[i] = 0

\* C12: create_graph on an empty series, or on a series of zeros of any length, returns a
\* blank grid: exactly `height` rows, each of exactly `width` empty cells.
C12_BlankGrid ==
    (ret # None /\ AllZero(call.values)) =>
        /\ Len(ret.v) = call.height
        /\ \A y \in 1..Len(ret.v) :
              /\ Len(ret.v[y]) = call.width
              /\ \A x \in 1..Len(ret.v[y]) : ret.v[y][x] = " "

C12_Witness ==
    /\ ret # None
    /\ call.values = <<0, 0, 0, 0>> /\ call.width = 3 /\ call.height = 2
    /\ ret.v = <<<<" ", " ", " ">>, <<" ", " ", " ">>>>

Filled == GraphChars(call.graph_type)[Len(GraphChars(call.graph_type))]
Empty  == GraphChars(call.graph_type)[1]
IsExample == call.height >= 1 /\ call.width = 3
                 /\ call.values = <<0, call.height, 2 * call.height>>

\* C13 as stated: the series 0, H, 2H at height H and width 3 gives a grid whose bottom
\* row is entirely filled and whose top row is filled only in the column of 2H, for every H.
C13_ExampleGrid ==
    (ret # None /\ IsExample) =>
        /\ ret.v[call.height] = <<Filled, Filled, Filled>>
        /\ ret.v[1] = <<Empty, Empty, Filled>>

\* C13 amended: the same for every height H >= 3; at H = 2 the top row is filled in the
\* columns of H and 2H, and at H = 1 the only row is entirely filled.
C13_ExampleGridFrom3 ==
    (ret # None /\ IsExample) =>
        /\ ret.v[call.height] = <<Filled, Filled, Filled>>
        /\ call.height >= 3 => ret.v[1] = <<Empty, Empty, Filled>>
        /\ call.height = 2 => ret.v[1] = <<Empty, Filled, Filled>>
        /\ call.height = 1 => ret.v[1] = <<Filled, Filled, Filled>>

C13_Witness ==
    /\ ret # None /\ IsExample /\ call.height = 4 /\ call.graph_type = "block"
    /\ ret.v = << <<Empty, Empty, Filled>>, <<Empty, Filled, Filled>>,
                  <<Empty, Filled, Filled>>, <<Filled, Filled, Filled>> >>

\* C14: once a `q` key is consumed running is false for ever; the tick that read the `q`
\* ends by emitting one complete frame, and the loop then exits without another tick.
C14_QuitStep ==
    /\ (running /\ ~running') =>
          /\ pc' = "loop"
          /\ frame' = Some(ComposeFrame(cached_stats', ui'))
    /\ ~running => ~running'
    /\ (~running /\ pc = "loop") =>
          (pc' = "done" /\ frame' = frame /\ UNCHANGED <<engineVars, cached_stats>>)

C14_Quit == [][C14_QuitStep]_vars

\* a step that is one tick of the loop in which handle_keyboard read the key k
\* (an upper-case letter is read as its lower case)
Pressed(k) ==
    /\ pc = "loop" /\ pc' # "done"
    /\ call'.fn = "handle_keyboard"
    /\ Lower(call'.key) = k

OverlayOf(type) == Some([type |-> type])

\* C15: in every interaction state (Normal, Help, Menu, Filter) the key p flips paused and
\* leaves overlay, filter_text, filter_buffer, sort key, scroll offset and layout as they
\* were; two consecutive p presses restore the paused value.
C15_PauseStep ==
    /\ Pressed("p") =>
          /\ paused' = ~paused
          /\ UNCHANGED <<overlay, process_filter, filter_buffer, process_sort_key,
                         process_scroll, current_layout>>
    /\ KeyEffect(KeyEffect(ui, "p"), "p") = ui

C15_PauseKey == [][C15_PauseStep]_vars

C15_Witness ==
    /\ call.fn = "handle_keyboard" /\ call.key = "p"
    /\ paused /\ overlay = OverlayOf("filter") /\ filter_buffer = <<"a">>

\* C16: at most one overlay is active; h, m or f closes its overlay when that one is
\* active (Normal), and otherwise makes its overlay the single active one.
OverlayKey(k, type) ==
    Pressed(k) =>
        IF overlay = OverlayOf(type) THEN overlay' = None ELSE overlay' = OverlayOf(type)

C16_OverlayStep ==
    /\ overlay' \in {None, OverlayOf("help"), OverlayOf("menu"), OverlayOf("filter")}
    /\ OverlayKey("h", "help")
    /\ OverlayKey("m", "menu")
    /\ OverlayKey("f", "filter")
    /\ (frame' # None /\ frame'.v.kind = "overlay") =>
          (overlay' # None /\ frame'.v.type = overlay'.v.type)

C16_Overlays == [][C16_OverlayStep]_vars

C16_Witness ==
    /\ call.fn = "handle_keyboard" /\ call.key = "m"
    /\ overlay = OverlayOf("menu") /\ filter_buffer = <<"a">>
    /\ frame.v.kind = "overlay" /\ frame.v.type = "menu"

\* C17: sort_key is always cpu or memory; each s key switches it to the other value (two
\* s presses restore it) and changes no other interaction field.
C17_SortStep ==
    /\ process_sort_key' \in {"cpu_percent", "memory_percent"}
    /\ Pressed("s") =>
          /\ process_sort_key' # process_sort_key
          /\ UNCHANGED <<running, paused, overlay, process_filter, filter_buffer,
                         process_scroll, current_layout, process_sort_reverse>>
    /\ KeyEffect(KeyEffect(ui, "s"), "s") = ui

C17_SortKey == [][C17_SortStep]_vars

C17_Witness ==
    /\ call.fn = "handle_keyboard" /\ call.key = "S"
    /\ process_sort_key = "memory_percent" /\ overlay = OverlayOf("filter")

\* C18: a digit key d of 1..5 sets selected_layout to d - 1 only when d - 1 is smaller than
\* the number of configured presets, and otherwise leaves it unchanged: selected_layout is
\* always a valid preset index, or its initial value.
DigitKey(k) ==
    Pressed(k) =>
        IF DigitValue(k) - 1 < preset_count
        THEN current_layout' = DigitValue(k) - 1
        ELSE current_layout' = current_layout

C18_LayoutStep ==
    /\ \A k \in {"1", "2", "3", "4", "5"} : DigitKey(k)
    /\ current_layout' = 0 \/ (0 <= current_layout' /\ current_layout' < preset_count)

C18_Layout == [][C18_LayoutStep]_vars

\* C19: scroll_offset is never negative: the arrows set it to max(0, scroll_offset -/+ 1)
\* and page up / page down to max(0, scroll_offset -/+ 10), whatever the keys before.
ScrollKey(k, delta) == Pressed(k) => process_scroll' = Max(0, process_scroll + delta)

C19_ScrollStep ==
    /\ process_scroll >= 0 /\ process_scroll' >= 0
    /\ ScrollKey("UP", -1)
    /\ ScrollKey("DOWN", 1)
    /\ ScrollKey("PGUP", -10)
    /\ ScrollKey("PGDN", 10)

C19_Scroll == [][C19_ScrollStep]_vars

C19_Witness ==
    /\ call.fn = "handle_keyboard" /\ call.key = "PGUP"
    /\ process_scroll = 0 /\ overlay = OverlayOf("filter")

\* the value the process of this pid has, in the cached snapshot, for the current sort key
SortValue(pid) ==
    LET procs == cached_stats.processes.v
        p == procs[CHOOSE i \in 1..Len(procs) : procs[i].pid = pid]
    IN  IF process_sort_key = "cpu_percent" THEN p.cpu_percent ELSE p.memory_percent

\* C20: the process rows of the frame displayed are ordered by the current sort key (cpu
\* percentage or memory percentage), descending when sort_descending is true and ascending
\* otherwise; so the frame after an `s` key is ordered by the other key.
C20_SortedBySortKey ==
    (pc \in {"loop", "done"} /\ frame.v.kind = "layout") =>
        LET rows == frame.v.processes.rows
        IN  \A i \in 1..(Len(rows) - 1) :
                IF process_sort_reverse
                THEN SortValue(rows[i]) >= SortValue(rows[i + 1])
                ELSE SortValue(rows[i]) <= SortValue(rows[i + 1])

(***************************************************************************)
(* C21: when the provider cannot report an optional field (cpu_freq()      *)
(* unavailable, a process's memory_info() refused), the sample carries the *)
(* field as unknown and never as the number 0.                             *)
(***************************************************************************)
C21_UnknownNotZero ==
    ret # None /\ call.fn = "sample" =>
        /\ call.s.freq = None =>
              /\ ret.v.cpu.v.freq_current # 0
              /\ ret.v.cpu.v.freq_min # 0
              /\ ret.v.cpu.v.freq_max # 0
        /\ \A i \in 1..Len(call.s.procs) :
              call.s.procs[i].memory_info = None =>
                  /\ ret.v.processes.v[i].memory_rss # 0
                  /\ ret.v.processes.v[i].memory_vms # 0

\* the window the claim describes: the last `width` values, zeros on the left up to `width`
ShownWindow(values, width) ==
    LET n == Len(values)
        kept == IF n > width THEN SubSeq(values, n - width + 1, n) ELSE values
    IN  [i \in 1..(width - Len(kept)) |-> 0] \o kept

\* floor(v * height / m), m # 0
FloorLevel(v, m, height) ==
    IF m > 0 THEN (v * height) \div m ELSE (-(v * height)) \div (-m)

\* a window the claim's level is defined on: it has a value, and its maximum is not 0
HasScale(values, width) ==
    width >= 1 /\ MaxOf(ShownWindow(values, width)) # 0

(***************************************************************************)
(* C22: for a series that is not all zero, create_graph returns exactly    *)
(* `height` rows of `width` cells, top row (y = height-1) first, and the   *)
(* cell of column x and row y (from the bottom) is filled exactly when     *)
(* min(height-1, floor(value_x * height / max)) >= y, where the values are *)
(* the last `width` values left-padded with zeros and max is their         *)
(* maximum.                                                                *)
(***************************************************************************)
C22_GraphCells ==
    (ret # None /\ call.fn = "create_graph" /\ ~AllZero(call.values)) =>
        /\ Len(ret.v) = call.height
        /\ \A row \in 1..Len(ret.v) : Len(ret.v[row]) = call.width
        /\ HasScale(call.values, call.width) =>
              LET w == ShownWindow(call.values, call.width)
                  m == MaxOf(w)
              IN  \A row \in 1..call.height : \A x \in 1..call.width :
                      ret.v[row][x] =
                          IF Min(call.height - 1, FloorLevel(w[x], m, call.height))
                                 >= call.height - row
                          THEN Filled ELSE Empty

\* the same on the series without a negative value
C22_NonNegative ==
    (\A i \in 1..Len(call.values) : call.values[i] >= 0) => C22_GraphCells

\* the name holds the text as a substring, letter case ignored
NameMatches(name, text) ==
    \E i \in 0..(Len(name) - Len(text)) :
        \A j \in 1..Len(text) : Lower(name[i + j]) = Lower(text[j])

\* the pids of the call's processes the filter text keeps
KeptPids ==
    {call.stats[i].pid : i \in {j \in 1..Len(call.stats) :
        call.filter = <<>> \/ NameMatches(call.stats[j].name, call.filter)}}

(***************************************************************************)
(* C23: the processes handed to sorting and windowing are exactly the      *)
(* snapshot's processes whose name contains filter_text, case ignored      *)
(* (all of them when filter_text is empty); the scroll window is taken     *)
(* from the filtered list.                                                 *)
(***************************************************************************)
C23_FilterThenWindow ==
    (ret # None /\ call.fn = "draw_processes") =>
        LET rows == {ret.v.rows[i] : i \in 1..Len(ret.v.rows)}
            n == Cardinality(KeptPids)
        IN  /\ ret.v.total = n
            /\ rows \subseteq KeptPids
            /\ call.scroll_position < n =>
                  /\ Len(ret.v.rows) = n - call.scroll_position
                  /\ Cardinality(rows) = n - call.scroll_position
            /\ call.scroll_position = 0 => rows = KeptPids

C23_Witness ==
    /\ ret # None /\ call.fn = "draw_processes"
    /\ call.stats = <<ProcA, ProcB, ProcC, ProcD>>
    /\ call.filter = <<"B", "a">> /\ call.scroll_position = 0
    /\ ret.v.rows = <<2>> /\ ret.v.total = 1

FilterShown == overlay # None /\ overlay.v.type = "filter"

\* a key that is neither a hotkey nor an arrow or page key
OtherKey(k) ==
    /\ k # NoKey
    /\ Lower(k) \notin {"q", "p", "h", "m", "s", "f", "1", "2", "3", "4", "5"}
    /\ k \notin {"UP", "DOWN", "PGUP", "PGDN"}

(***************************************************************************)
(* C24: while the Filter overlay is not shown, a key other than q, p, h,   *)
(* m, s, f, 1-5 and the arrow and page keys (Enter, Escape, Backspace,     *)
(* other characters; also under the Help or Menu overlay) leaves every     *)
(* field of the interaction state unchanged.                               *)
(***************************************************************************)
C24_IgnoredStep ==
    (/\ pc = "loop" /\ pc' # "done"
     /\ call'.fn = "handle_keyboard" /\ OtherKey(call'.key)
     /\ ~FilterShown) => UNCHANGED uiVars

C24_OtherKeysIgnored == [][C24_IgnoredStep]_vars

C24_Witness ==
    /\ pc = "loop" /\ call.fn = "handle_keyboard" /\ call.key = "CR"
    /\ overlay = Some([type |-> "help"])
    /\ filter_buffer = <<>> /\ process_filter = <<>>

(***************************************************************************)
(* C25: while the Filter overlay is shown, the arrow-up, arrow-down,       *)
(* page-up and page-down keys leave the scroll offset unchanged.           *)
(***************************************************************************)
C25_NoScrollStep ==
    (/\ pc = "loop" /\ pc' # "done"
     /\ call'.fn = "handle_keyboard" /\ call'.key \in {"UP", "DOWN", "PGUP", "PGDN"}
     /\ FilterShown) => process_scroll' = process_scroll

C25_NoScrollInFilter == [][C25_NoScrollStep]_vars

(***************************************************************************)
(* C26: handling a key never changes the sampling state.  A tick that      *)
(* reads a key and then does not sample (paused) leaves the cached         *)
(* snapshot, the three history buffers, the per-process histories, the     *)
(* peaks and the previous counters and time as they were; a tick that      *)
(* reads a key and samples leaves them exactly as the sample alone, taken  *)
(* on the state before the key, leaves them.                               *)
(***************************************************************************)
C26_KeyStep ==
    (/\ pc = "loop" /\ pc' # "done"
     /\ call'.fn = "handle_keyboard" /\ call'.key # NoKey) =>
          IF paused'
          THEN UNCHANGED <<engineVars, cached_stats>>
          ELSE \E s \in KeySamples :
                  LET r == Ingest(engine, cached_stats, hist_log, s)
                  IN  engine' = r.e /\ cached_stats' = r.c

C26_KeysLeaveSampling == [][C26_KeyStep]_vars

C26_Witness ==
    /\ pc = "loop" /\ call.fn = "handle_keyboard" /\ call.key = "s"
    /\ paused /\ process_sort_key = "memory_percent"
    /\ Len(cpu_history) = 1 /\ cached_stats # NoStats

RECURSIVE ApplyKeys(_, _)
\* the interaction state after the keys are handled one after the other
ApplyKeys(u, keys) ==
    IF keys = <<>> THEN u ELSE ApplyKeys(KeyEffect(u, Head(keys)), Tail(keys))

(***************************************************************************)
(* C27: a tick consumes at most one pending key and never waits for one.   *)
(* With k keys pending and nothing typed since, after n ticks the first    *)
(* min(n, k) keys have been applied in arrival order, one per tick, and    *)
(* the others are still pending; a tick that finds no key pending runs     *)
(* all the same and leaves the interaction state as it was.                *)
(***************************************************************************)
C27_OneKeyPerTick ==
    (call.fn = "main" /\ pc \in {"loop", "done"}) =>
        LET k == Len(call.typed)
            n == Min(call.ticks, k)
        IN  /\ ui = ApplyKeys(Ui0, SubSeq(call.typed, 1, n))
            /\ kbd = SubSeq(call.typed, n + 1, k)

\* three keys typed ahead: after the second tick `f` and `a` are applied and `CR` waits
C27_Witness ==
    /\ call.fn = "main" /\ call.typed = <<"f", "a", "CR">> /\ call.ticks = 2
    /\ pc = "loop" /\ kbd = <<"CR">>
    /\ overlay = Some([type |-> "filter"]) /\ filter_buffer = <<"a">>

\* no key pending any more: the tick after the last key changed nothing
C27_IdleWitness ==
    /\ call.fn = "main" /\ call.typed = <<"DOWN">> /\ call.ticks = 2
    /\ pc = "loop" /\ kbd = <<>> /\ process_scroll = 1

(***************************************************************************)
(* C28: every tick whose update() runs with paused false ingests a fresh   *)
(* sample: each of the cpu, memory and network history buffers receives    *)
(* exactly one new entry and the cached snapshot is replaced by the new    *)
(* sample, whether the Help, Menu or Filter overlay is shown or not.       *)
(***************************************************************************)
C28_SamplingStep ==
    (pc = "loop" /\ pc' # "done" /\ ~paused') =>
        /\ Len(hist_log'.cpu) = Len(hist_log.cpu) + 1
        /\ Len(hist_log'.mem) = Len(hist_log.mem) + 1
        /\ Len(hist_log'.net) = Len(hist_log.net) + 1
        /\ cpu_history' = DequeAppend(cpu_history, Last(hist_log'.cpu), HistoryMaxLen)
        /\ memory_history' = DequeAppend(memory_history, Last(hist_log'.mem), HistoryMaxLen)
        /\ net_history' = DequeAppend(net_history, Last(hist_log'.net), HistoryMaxLen)
        /\ cached_stats'.cpu = Some([cached_stats'.cpu.v EXCEPT
                                        !.total = Last(hist_log'.cpu),
                                        !.history = cpu_history'])
        /\ cached_stats'.network.v.send_speed = Last(hist_log'.net)[1]

C28_OverlayKeepsSampling == [][C28_SamplingStep]_vars

\* the number of latest consecutive enumerations that hold the pid
SeenInARow(pid) ==
    LET n == Len(hist_log.procs)
    IN  CHOOSE k \in 0..n :
            /\ \A i \in (n - k + 1)..n : pid \in PidsOf(hist_log.procs[i])
            /\ k = n \/ pid \notin PidsOf(hist_log.procs[n - k])

\* the pid's cpu_percent in the latest m enumerations, oldest first
LatestCpu(pid, m) ==
    LET n == Len(hist_log.procs)
    IN  [i \in 1..m |-> ProcOf(hist_log.procs[n - m + i], pid).cpu_percent]

(***************************************************************************)
(* C29: every per-process CPU history holds at most 10 values; for a pid   *)
(* seen in k consecutive samples since it appeared or reappeared it is the *)
(* pid's last min(k, 10) cpu_percent values in arrival order, so a pid     *)
(* that was missing from a sample and is back starts again at length 1.    *)
(***************************************************************************)
C29_ProcessHistory ==
    \A pid \in DOMAIN process_cpu_history :
        /\ Len(process_cpu_history[pid]) <= 10
        /\ SeenInARow(pid) >= 1
        /\ process_cpu_history[pid] = LatestCpu(pid, Min(SeenInARow(pid), 10))

\* 13 samples: process 1 was in all of them, process 2 was missing from the 12th
C29_Witness ==
    /\ Len(hist_log.procs) = 13
    /\ Len(hist_log.procs[11]) = 2 /\ Len(hist_log.procs[12]) = 1
    /\ Len(process_cpu_history[1]) = 10
    /\ process_cpu_history[2] = <<3>>

(***************************************************************************)
(* C30: a SIGINT delivered at any point after the handler is installed,    *)
(* start-up before the application object exists included, only sets       *)
(* running to false and never raises; the loop then runs no further tick   *)
(* and exits.                                                              *)
(***************************************************************************)
C30_SigintStep ==
    /\ (call = NoCall /\ call'.fn = "signal_handler") =>
          /\ pc' = pc
          /\ ~running'
          /\ UNCHANGED <<engineVars, cached_stats, frame, hist_log, paused, current_layout,
                         overlay, process_sort_key, process_sort_reverse, process_filter,
                         filter_buffer, process_scroll>>
    /\ (call.fn = "signal_handler" /\ call' = call) =>
          /\ ~running'
          /\ pc' # "crashed"
          /\ pc = "loop" => pc' = "done"

C30_GracefulInterrupt == [][C30_SigintStep]_vars

(***************************************************************************)
(* C31: leaving the Filter overlay with Escape discards the edit buffer:   *)
(* after the Escape filter_buffer is empty, so the next Filter dialogue    *)
(* starts from an empty buffer.                                            *)
(***************************************************************************)
C31_EscapeStep ==
    (/\ pc = "loop" /\ pc' # "done"
     /\ call'.fn = "handle_keyboard" /\ call'.key = "ESC"
     /\ FilterShown) => (overlay' = None /\ filter_buffer' = <<>>)

C31_EscapeClearsBuffer == [][C31_EscapeStep]_vars

HotkeyChars == {"q", "p", "h", "m", "s", "f", "1", "2", "3", "4", "5"}
UpperChars == {"A", "B", "S"}

\* the text holds no hotkey character and no upper-case letter
PlainText(text) ==
    \A i \in 1..Len(text) : text[i] \notin HotkeyChars \cup UpperChars

(***************************************************************************)
(* C32: in every reachable state filter_buffer and the committed filter    *)
(* text hold none of q, p, h, m, s, f, 1-5 and no upper-case letter: in    *)
(* the Filter overlay these keys are lower-cased and act as hotkeys.       *)
(***************************************************************************)
C32_PlainFilterText == PlainText(filter_buffer) /\ PlainText(process_filter)

\* `A` typed in the Filter overlay went into the buffer as `a`
C32_Witness ==
    /\ pc = "loop" /\ call.fn = "handle_keyboard" /\ call.key = "A"
    /\ FilterShown /\ filter_buffer = <<"a">>

\* at least one sample was ingested completely
Sampled == Len(hist_log.battery) >= 1

\* C33 as stated: whenever a frame has been composed, all seven entries of the cached
\* snapshot are populated, none of them being None.
C33_AllSevenPopulated ==
    frame # None =>
        /\ cached_stats.cpu # None /\ cached_stats.memory # None
        /\ cached_stats.disk # None /\ cached_stats.network # None
        /\ cached_stats.processes # None /\ cached_stats.system # None
        /\ cached_stats.battery # None

\* C33 amended: paused is true, or a frame is composed, only after a sample was ingested
\* completely; the entries cpu, memory, disk, network, processes and system are then
\* populated (not None), and the battery entry is the latest sample's battery reading,
\* which is None on a machine without a battery.
C33_SampledBeforeFrame ==
    (frame # None \/ paused) =>
        /\ Sampled
        /\ cached_stats.cpu # None /\ cached_stats.memory # None
        /\ cached_stats.disk # None /\ cached_stats.network # None
        /\ cached_stats.processes # None /\ cached_stats.system # None
        /\ cached_stats.battery = Last(hist_log.battery)

\* paused right after the first frame, on a machine without a battery
C33_Witness ==
    /\ pc = "loop" /\ paused /\ frame # None /\ frame.v.kind = "layout"
    /\ Len(hist_log.battery) = 1
    /\ cached_stats.cpu # None /\ cached_stats.battery = None

\* the reading taken by the latest sample (the constructor's, before the first)
LastReading == Last(hist_log.io)

(***************************************************************************)
(* C34: the previous counters and the previous time are advanced only by   *)
(* ticks that sample.  The first ingest after a pause of any length        *)
(* reports (counter at resume - counter at the last sample before the      *)
(* pause) / (time at resume - time of that sample), the traffic of the     *)
(* pause averaged over the whole interval, and the peak becomes the        *)
(* greater of the old peak and that rate.                                  *)
(***************************************************************************)
C34_PauseStep ==
    (call.fn = "os" /\ call' # call) =>
        IF NetIngested
        THEN LET rate == cached_stats'.network.v.send_speed
                 elapsed == call'.time - LastReading.time
             IN  /\ elapsed > 0 /\ rate.den > 0
                 /\ rate.num * elapsed
                       = (call'.bytes_sent - LastReading.bytes_sent) * rate.den
                 /\ peak_send_speed' = Greater(peak_send_speed, rate)
                 /\ prev_time' = call'.time
                 /\ prev_net_io'.bytes_sent = call'.bytes_sent
        ELSE /\ paused'
             /\ UNCHANGED <<prev_net_io, prev_time, peak_send_speed, peak_recv_speed>>
             /\ hist_log'.io = hist_log.io

C34_RateAcrossPause == [][C34_PauseStep]_vars

\* no traffic in the first second, 100 bytes in each of two paused seconds and 100 in the
\* second of the resume: the rate 300 / 3 = 100 is reported and becomes the peak
C34_Witness ==
    /\ call.fn = "os" /\ call.time = 4 /\ call.bytes_sent = 300
    /\ Len(hist_log.io) = 3 /\ hist_log.io[2].time = 1 /\ hist_log.io[2].bytes_sent = 0
    /\ ~paused /\ prev_time = 4
    /\ cached_stats.network.v.send_speed = Whole(100)
    /\ peak_send_speed = Whole(100)

(***************************************************************************)
(* C35: for a fixed process list the start index of the window drawn is    *)
(* non-decreasing in the scroll offset: a step that leaves the list as it  *)
(* is and does not lower process_scroll (arrow-down, page-down) does not   *)
(* move the window back to an earlier part of the list.                    *)
(***************************************************************************)
C35_WindowStep ==
    (/\ frame # None /\ frame.v.kind = "layout"
     /\ frame' # None /\ frame'.v.kind = "layout"
     /\ cached_stats' = cached_stats /\ process_filter' = process_filter
     /\ process_scroll' >= process_scroll) =>
          DrawnWindow'.start_idx >= DrawnWindow.start_idx

C35_MonotoneWindow == [][C35_WindowStep]_vars

=============================================================================
